---- MODULE Spec2Model ----
(***************************************************************************)
(* A model of latentsense_server.py: the server lifespan (app_lifespan),   *)
(* the API client (LatentsenseClient) and the eight tool handlers.         *)
(*                                                                         *)
(* Strings that the code builds by formatting are sequences of tokens:     *)
(* f"Error: {str(e)}" is <<"Error: ">> \o msg, so that "starts with" is a  *)
(* statement about the first tokens.  Python's None is the value None,     *)
(* which is different from the empty string.                               *)
(***************************************************************************)
EXTENDS Integers, Sequences, FiniteSets, TLC

VARIABLES
    envApiKey,        \* os.getenv("LATENTSENSE_API_KEY")
    envProjectId,     \* os.getenv("LATENTSENSE_PROJECT_ID")
    envBaseUrl,       \* os.getenv("LATENTSENSE_BASE_URL")
    present,          \* the paths that exist as files on the local filesystem
    readable,         \* the existing files that can be opened for reading
    life,             \* position of app_lifespan: init, serving, exited, crashed, failed
    client,           \* the LatentsenseClient of the lifespan and its httpx client
    created,          \* number of httpx.AsyncClient constructed
    closed,           \* number of aclose() calls made
    lifespan_context, \* what a tool handler finds in ctx.request_context
    invoked,          \* whether a tool handler has been entered
    call,             \* the tool invocation whose result the host has not yet taken
    delegated,        \* the client method the handler called, or None
    events,           \* file and network I/O of that invocation, in order
    requests,         \* the HTTP requests of that invocation
    response,         \* what the vendor answered, or None without a request
    clientResult,     \* what the client method returned or raised
    outcome           \* what the tool handler returned or raised

vars == <<envApiKey, envProjectId, envBaseUrl, present, readable, life, client,
          created, closed, lifespan_context, invoked, call, delegated, events,
          requests, response, clientResult, outcome>>

envVars == <<envApiKey, envProjectId, envBaseUrl, present, readable>>
lifeVars == <<life, client, created, closed, lifespan_context>>
callVars == <<call, delegated, events, requests, response, clientResult, outcome>>

(***************************************************************************)
(* Bounds of the model.                                                    *)
(***************************************************************************)
MaxFiles == 2      \* longest `files` list a tool is called with
MaxFiles2 == 1     \* longest `files2` list create_knowledge_graph is called with

(***************************************************************************)
(* Values.                                                                 *)
(***************************************************************************)
None == "<None>"

\* Python truthiness of an Optional[str]: None and "" are false.
Truthy(s) == s # None /\ s # ""

DefaultBaseUrl == "https://controller.latentsense.com"

\* The file paths tools are called with.  "" is the empty path.
FilePaths == {"docs/a.txt", "b.txt"}
Paths == FilePaths \cup {""}

SeqsUpTo(S, n) == UNION {[1..k -> S] : k \in 0..n}

Min(S) == CHOOSE x \in S : \A y \in S : x <= y

\* Path(p).name
Basename(p) == IF p = "docs/a.txt" THEN "a.txt" ELSE p

\* Path(p).exists(): Path("") is the current directory, which exists.
PathExists(p) == p = "" \/ p \in present

\* aiofiles.open(p, "rb") followed by read() succeeds on a readable file.
CanOpen(p) == p \in readable

Ev(kind, p) == [ev |-> kind, path |-> p]

Return(v) == [raised |-> FALSE, kind |-> "", msg |-> <<>>, value |-> v]
Raise(k, m) == [raised |-> TRUE, kind |-> k, msg |-> m, value |-> ""]

\* raise FileNotFoundError(f"File not found: {file_path}")
FileNotFound(p) == Raise("FileNotFoundError", <<"File not found: ", p>>)

\* What open() raises on a path that passed exists() but cannot be opened:
\* a file without read permission, or the empty path (open("") finds no file).
OpenError(p) ==
    IF p \in present
    THEN Raise("PermissionError", <<"[Errno 13] Permission denied: ", p>>)
    ELSE Raise("FileNotFoundError", <<"[Errno 2] No such file or directory: ", p>>)

\* One multipart part: (field, (Path(p).name, content))
Part(field, p) == [field |-> field, name |-> Basename(p), content |-> <<"bytes", p>>]

(***************************************************************************)
(* The API client.  A client method's run is the I/O it did, in order, the *)
(* requests it sent, the vendor's answer and what it returned or raised.   *)
(***************************************************************************)
\* What the vendor, or the transport, answers to a request.
Responses == {"200 json", "200 not json", "404", "500", "connect error", "timeout"}

VendorPayload == "payload"

\* What client.request, raise_for_status and response.json do with an answer.
Exchange(resp) ==
    CASE resp = "connect error" ->
            Raise("ConnectError", <<"All connection attempts failed">>)
      [] resp = "timeout" -> Raise("ReadTimeout", <<"The read operation timed out">>)
      [] resp = "404" -> Raise("HTTPStatusError", <<"Client error '404 Not Found'">>)
      [] resp = "500" ->
            Raise("HTTPStatusError", <<"Server error '500 Internal Server Error'">>)
      [] resp = "200 not json" ->
            Raise("JSONDecodeError", <<"Expecting value: line 1 column 1 (char 0)">>)
      [] OTHER -> Return(VendorPayload)

\* As IsHTTPError, had the handler been `except httpx.HTTPStatusError`.
IsHTTPStatusErrorOnly(kind) == kind = "HTTPStatusError"

\* The exception classes `except httpx.HTTPError` catches.
IsHTTPError(kind) == kind \in {"ConnectError", "ReadTimeout", "HTTPStatusError"}

NoJson == [given |-> FALSE, dict |-> {}]
JsonBody(d) == [given |-> TRUE, dict |-> d]

Request(method, endpoint, params, json, files, data) ==
    [method |-> method, url |-> <<client.base_url>> \o endpoint, params |-> params,
     json |-> json, files |-> files, data |-> data]

NoRun == [events |-> <<>>, requests |-> <<>>, response |-> None, result |-> Return(None)]

\* LatentsenseClient._make_request
MakeRequest(req, resp) ==
    LET got == Exchange(resp)
    IN [events |-> <<Ev("http", "")>>,
        requests |-> <<req>>,
        response |-> resp,
        result |-> IF got.raised /\ IsHTTPError(got.kind)
                   THEN Raise("Exception", <<"API request failed: ">> \o got.msg)
                   ELSE got]

\* params of LatentsenseClient.get_project_runs: a key is set when its value is truthy
RunsParams(a) ==
    (IF Truthy(a.filter_cog_name)
        THEN <<<<"filterCogName", a.filter_cog_name>>>> ELSE <<>>)
    \o (IF Truthy(a.filter_user_id)
        THEN <<<<"filterUserId", a.filter_user_id>>>> ELSE <<>>)
    \o (IF Truthy(a.filter_api_key_id)
        THEN <<<<"filterApiKeyId", a.filter_api_key_id>>>> ELSE <<>>)
    \o (IF a.page # 0 THEN <<<<"page", a.page>>>> ELSE <<>>)
    \o (IF a.rows_per_page # 0 THEN <<<<"rowsPerPage", a.rows_per_page>>>> ELSE <<>>)
    \o (IF a.sort_by # "" THEN <<<<"sortBy", a.sort_by>>>> ELSE <<>>)
    \o <<<<"descending", a.descending>>>>

\* LatentsenseClient.get_project_runs
ClientGetProjectRuns(a, resp) ==
    MakeRequest(Request("GET", <<"/api/runs/project/", client.project_id>>,
                        RunsParams(a), NoJson, <<>>, <<>>), resp)

\* LatentsenseClient.get_run_results
ClientGetRunResults(run_id, resp) ==
    MakeRequest(Request("GET", <<"/api/runs/", run_id, "/results">>,
                        <<>>, NoJson, <<>>, <<>>), resp)

HasPath(kv) == Truthy(kv[2])

\* LatentsenseClient._upload_files: additional_files is the dict as a
\* sequence of <<field, path>> in insertion order.
UploadFiles(endpoint, files, additional_files, form_data, resp) ==
    LET extra == SelectSeq(additional_files, HasPath)
        paths == files \o [i \in 1..Len(extra) |-> extra[i][2]]
        missing == {i \in 1..Len(paths) : ~PathExists(paths[i])}
        unread == {i \in 1..Len(paths) : ~CanOpen(paths[i])}
        checks == [i \in 1..Len(paths) |-> Ev("exists", paths[i])]
        reads == [i \in 1..Len(paths) |-> Ev("read", paths[i])]
        parts == [i \in 1..Len(files) |-> Part("files", files[i])]
                 \o [i \in 1..Len(extra) |-> Part(extra[i][1], extra[i][2])]
        sent == MakeRequest(Request("POST", endpoint, <<>>, NoJson, parts, form_data),
                            resp)
    IN IF missing # {}
       THEN [NoRun EXCEPT !.events = SubSeq(checks, 1, Min(missing)),
                          !.result = FileNotFound(paths[Min(missing)])]
       ELSE IF unread # {}
       THEN [NoRun EXCEPT !.events = checks \o SubSeq(reads, 1, Min(unread) - 1)
                                      \o <<Ev("openfail", paths[Min(unread)])>>,
                          !.result = OpenError(paths[Min(unread)])]
       ELSE [sent EXCEPT !.events = checks \o reads \o @]

\* LatentsenseClient.redact_pii
ClientRedactPii(files, resp) ==
    UploadFiles(<<"/", client.project_id, "/redact-pii">>, files, <<>>, <<>>, resp)

\* str(cutoff)
Str(x) == <<"str", x>>

\* LatentsenseClient.redact_relevance
ClientRedactRelevance(files, relevance_term_file, cutoff, resp) ==
    UploadFiles(<<"/", client.project_id, "/redact-relevance">>, files,
                <<<<"relevance_term", relevance_term_file>>>>,
                <<<<"cutoff", Str(cutoff)>>>>, resp)

\* LatentsenseClient.extract_relationships
ClientExtractRelationships(files, claim_concepts_file, resp) ==
    UploadFiles(<<"/", client.project_id, "/relationships-from-premises">>, files,
                <<<<"claim_concepts", claim_concepts_file>>>>, <<>>, resp)

NoList == [given |-> FALSE, list |-> <<>>]
SomeList(l) == [given |-> TRUE, list |-> l]

\* One `for file_path in ...` loop of create_knowledge_graph from its i-th
\* path on: each path is checked and then read before the next is looked at.
RECURSIVE KGLoop(_, _, _, _)
KGLoop(field, paths, i, acc) ==
    IF acc.err.raised \/ i > Len(paths) THEN acc
    ELSE LET p == paths[i]
         IN IF ~PathExists(p)
            THEN [acc EXCEPT !.events = Append(@, Ev("exists", p)),
                             !.err = FileNotFound(p)]
            ELSE IF ~CanOpen(p)
            THEN [acc EXCEPT !.events = @ \o <<Ev("exists", p), Ev("openfail", p)>>,
                             !.err = OpenError(p)]
            ELSE KGLoop(field, paths, i + 1,
                        [acc EXCEPT !.events = @ \o <<Ev("exists", p), Ev("read", p)>>,
                                    !.parts = Append(@, Part(field, p))])

\* `if concepts_file and Path(concepts_file).exists()` and its body
KGConcepts(concepts_file, acc) ==
    IF acc.err.raised \/ ~Truthy(concepts_file) THEN acc
    ELSE IF ~PathExists(concepts_file)
    THEN [acc EXCEPT !.events = Append(@, Ev("exists", concepts_file))]
    ELSE KGLoop("concepts", <<concepts_file>>, 1, acc)

\* LatentsenseClient.create_knowledge_graph
ClientCreateKnowledgeGraph(files, files2, concepts_file, files1_name, files2_name, resp) ==
    LET start == [events |-> <<>>, parts |-> <<>>, err |-> Return(None)]
        main == KGLoop("files", files, 1, start)
        second == IF files2.given /\ files2.list # <<>>
                  THEN KGLoop("files2", files2.list, 1, main) ELSE main
        all == KGConcepts(concepts_file, second)
        data == (IF Truthy(files1_name) THEN <<<<"files1_name", files1_name>>>> ELSE <<>>)
                \o (IF Truthy(files2_name) THEN <<<<"files2_name", files2_name>>>>
                    ELSE <<>>)
        sent == MakeRequest(Request("POST", <<"/", client.project_id, "/reasoner-x">>,
                                    <<>>, NoJson, all.parts, data), resp)
    IN IF all.err.raised
       THEN [NoRun EXCEPT !.events = all.events, !.result = all.err]
       ELSE [sent EXCEPT !.events = all.events \o @]

\* LatentsenseClient.get_rex_message
ClientGetRexMessage(run_id, resp) ==
    MakeRequest(Request("GET", <<"/api/chat/", client.project_id, "/message_rex">>,
                        <<<<"run_id", run_id>>>>, NoJson, <<>>, <<>>), resp)

NoGraph == [given |-> FALSE, dict |-> {}]
Graph(d) == [given |-> TRUE, dict |-> d]

\* `if graph`: a dict is true when it is not None and not empty
GraphTruthy(graph) == graph.given /\ graph.dict # {}

\* LatentsenseClient.send_rex_message
ClientSendRexMessage(message, run_id, graph, resp) ==
    LET endpoint == <<"/api/chat/", client.project_id, "/message_rex">>
        params == <<<<"message", message>>, <<"run_id", run_id>>>>
    IN IF GraphTruthy(graph)
       THEN MakeRequest(Request("POST", endpoint, params, JsonBody(graph.dict),
                                <<>>, <<>>), resp)
       ELSE MakeRequest(Request("POST", endpoint, params, NoJson, <<>>, <<>>), resp)

(***************************************************************************)
(* The lifespan.                                                           *)
(***************************************************************************)
NoClient == [state |-> "none", api_key |-> None, project_id |-> None, base_url |-> None]

\* As Missing, had the check been `api_key is None`.
MissingOnlyUnset(v) == v = None

\* `not api_key`: unset or empty
Missing(v) == ~Truthy(v)

Idle == [tool |-> "none"]
NoResult == Return(None)
NoOutcome == [raised |-> FALSE, kind |-> "", ret |-> <<>>]

Init ==
    /\ envApiKey \in {None, "", "key"}
    /\ envProjectId \in {None, "", "proj"}
    /\ envBaseUrl \in {None, "http://localhost:8000"}
    /\ present \in SUBSET FilePaths
    /\ readable \in SUBSET present
    /\ life = "init"
    /\ client = NoClient
    /\ created = 0
    /\ closed = 0
    /\ lifespan_context = None
    /\ invoked = FALSE
    /\ call = Idle
    /\ delegated = None
    /\ events = <<>>
    /\ requests = <<>>
    /\ response = None
    /\ clientResult = NoResult
    /\ outcome = NoOutcome

\* app_lifespan up to its yield: the two checks, the config, the client.
Startup ==
    /\ life = "init"
    /\ IF Missing(envApiKey) \/ Missing(envProjectId)
       THEN /\ life' = "failed"
            /\ UNCHANGED <<client, created, lifespan_context>>
       ELSE /\ life' = "serving"
            /\ client' = [state |-> "open", api_key |-> envApiKey,
                          project_id |-> envProjectId,
                          base_url |-> IF envBaseUrl = None THEN DefaultBaseUrl
                                       ELSE envBaseUrl]
            /\ created' = created + 1
            /\ lifespan_context' = "latentsense_client"
    /\ UNCHANGED <<closed, invoked>>
    /\ UNCHANGED envVars
    /\ UNCHANGED callVars

\* LatentsenseClient.close
Close(c) == [c EXCEPT !.state = "closed"]

\* The body of the `async with` ends normally: the generator resumes after
\* the yield and runs its finally clause.
Shutdown ==
    /\ life = "serving"
    /\ life' = "exited"
    /\ client' = Close(client)
    /\ closed' = closed + 1
    /\ lifespan_context' = None
    /\ UNCHANGED <<created, invoked>>
    /\ UNCHANGED envVars
    /\ UNCHANGED callVars

\* As ServeError, had the close not been in a finally clause.
ServeErrorNoFinally ==
    /\ life = "serving"
    /\ life' = "crashed"
    /\ lifespan_context' = None
    /\ UNCHANGED <<client, created, closed, invoked>>
    /\ UNCHANGED envVars
    /\ UNCHANGED callVars

\* An error is raised while the server is serving: it is thrown into the
\* generator at the yield, the finally clause runs, and it propagates.
ServeError ==
    /\ life = "serving"
    /\ life' = "crashed"
    /\ client' = Close(client)
    /\ closed' = closed + 1
    /\ lifespan_context' = None
    /\ UNCHANGED <<created, invoked>>
    /\ UNCHANGED envVars
    /\ UNCHANGED callVars

(***************************************************************************)
(* The tool handlers.  A handler's run is the client method it called (or  *)
(* None), that method's run, and what the handler returned or raised.      *)
(***************************************************************************)
Range(s) == {s[i] : i \in 1..Len(s)}

\* json.dumps(result, indent=2)
JsonDumps(v) == <<"json indent=2", v>>

\* f"Error: {str(e)}"
ErrorString(msg) == <<"Error: ">> \o msg

\* As Catches, had the handlers caught only the errors the client declares.
CatchesDeclaredOnly(kind) == kind \in {"Exception", "FileNotFoundError"}

\* The exception classes `except Exception` catches: every class the client
\* can raise derives from Exception.
Catches(kind) ==
    kind \in {"Exception", "FileNotFoundError", "PermissionError", "JSONDecodeError",
              "ConnectError", "ReadTimeout", "HTTPStatusError"}

Returned(s) == [raised |-> FALSE, kind |-> "", ret |-> s]

\* try: result = await client.<method>(...); return json.dumps(result, indent=2)
\* except Exception as e: return f"Error: {str(e)}"
Handle(res) ==
    IF ~res.raised THEN Returned(JsonDumps(res.value))
    ELSE IF Catches(res.kind) THEN Returned(ErrorString(res.msg))
    ELSE [raised |-> TRUE, kind |-> res.kind, ret |-> <<>>]

Rejected(s) == [delegated |-> None, run |-> NoRun, outcome |-> Returned(s)]
Delegated(method, run) ==
    [delegated |-> method, run |-> run, outcome |-> Handle(run.result)]

valid_cog_names ==
    <<"deidentification", "relationships", "ai_authorship_detection", "knowledge_graph">>
valid_sort_by == <<"time", "cost">>

\* As ToolGetProjectRuns, without the validation of sort_by.
ToolGetProjectRunsNoSortCheck(a, resp) ==
    IF Truthy(a.filter_cog_name) /\ a.filter_cog_name \notin Range(valid_cog_names)
    THEN Rejected(<<"Error: ", "filter_cog_name must be one of ">> \o valid_cog_names)
    ELSE Delegated("get_project_runs", ClientGetProjectRuns(a, resp))

\* get_project_runs (tool)
ToolGetProjectRuns(a, resp) ==
    IF Truthy(a.filter_cog_name) /\ a.filter_cog_name \notin Range(valid_cog_names)
    THEN Rejected(<<"Error: ", "filter_cog_name must be one of ">> \o valid_cog_names)
    ELSE IF a.sort_by \notin Range(valid_sort_by)
    THEN Rejected(<<"Error: ", "sort_by must be one of ">> \o valid_sort_by)
    ELSE Delegated("get_project_runs", ClientGetProjectRuns(a, resp))

\* get_run_results (tool)
ToolGetRunResults(a, resp) ==
    Delegated("get_run_results", ClientGetRunResults(a.run_id, resp))

\* redact_pii (tool)
ToolRedactPii(a, resp) == Delegated("redact_pii", ClientRedactPii(a.files, resp))

\* A cutoff is a float: not-a-number, or a number given here in tenths.
NaN == [nan |-> TRUE, tenths |-> 0]
Tenths(n) == [nan |-> FALSE, tenths |-> n]

\* As InUnitInterval, had the comparison been strict: 0 < cutoff < 1.
InOpenUnitInterval(c) == ~c.nan /\ 0 < c.tenths /\ c.tenths < 10

\* `0 <= cutoff <= 1`: every comparison with not-a-number is false
InUnitInterval(c) == ~c.nan /\ 0 <= c.tenths /\ c.tenths <= 10

CutoffError == <<"Error: ", "cutoff must be a number between 0 and 1">>

\* redact_relevance (tool)
ToolRedactRelevance(a, resp) ==
    IF ~InUnitInterval(a.cutoff) THEN Rejected(CutoffError)
    ELSE Delegated("redact_relevance",
                   ClientRedactRelevance(a.files, a.relevance_term_file, a.cutoff, resp))

\* extract_relationships (tool)
ToolExtractRelationships(a, resp) ==
    Delegated("extract_relationships",
              ClientExtractRelationships(a.files, a.claim_concepts_file, resp))

\* create_knowledge_graph (tool)
ToolCreateKnowledgeGraph(a, resp) ==
    Delegated("create_knowledge_graph",
              ClientCreateKnowledgeGraph(a.files, a.files2, a.concepts_file,
                                         a.files1_name, a.files2_name, resp))

\* get_rex_message (tool)
ToolGetRexMessage(a, resp) ==
    Delegated("get_rex_message", ClientGetRexMessage(a.run_id, resp))

\* send_rex_message (tool)
ToolSendRexMessage(a, resp) ==
    Delegated("send_rex_message",
              ClientSendRexMessage(a.message, a.run_id, a.graph, resp))

(***************************************************************************)
(* The arguments tools are called with.                                    *)
(***************************************************************************)
FileLists == SeqsUpTo(Paths, MaxFiles)
FileLists2 == {NoList} \cup {SomeList(l) : l \in SeqsUpTo(Paths, MaxFiles2)}
CogNameArgs == {None, "", "bogus"} \cup Range(valid_cog_names)
SortByArgs == {"time", "cost", "invalid", ""}
Cutoffs == {NaN} \cup {Tenths(n) : n \in {0 - 1, 0, 5, 10, 11, 15}}
RunIds == {"run-1"}
Graphs == {NoGraph, Graph({}), Graph({<<"nodes", "n1">>, <<"edges", "e1">>})}

\* A handler is entered: it reaches the client through the lifespan context,
\* which the host provides between the lifespan's yield and its exit, and the
\* host has taken the result of the invocation before it.
Dispatch == lifespan_context # None /\ call = Idle

\* What an invocation leaves behind: its arguments, its I/O and its result.
Invoke(args, t) ==
    /\ call' = args
    /\ invoked' = TRUE
    /\ delegated' = t.delegated
    /\ events' = t.run.events
    /\ requests' = t.run.requests
    /\ response' = t.run.response
    /\ clientResult' = t.run.result
    /\ outcome' = t.outcome
    /\ UNCHANGED envVars
    /\ UNCHANGED lifeVars

GetProjectRuns ==
    /\ Dispatch
    /\ \E cog \in CogNameArgs, user \in {None, "user-1"}, key \in {None, "key-1"},
          page \in {0, 1}, rows \in {0, 50}, sort \in SortByArgs, desc \in BOOLEAN,
          resp \in Responses :
        LET a == [tool |-> "get_project_runs", filter_cog_name |-> cog,
                  filter_user_id |-> user, filter_api_key_id |-> key, page |-> page,
                  rows_per_page |-> rows, sort_by |-> sort, descending |-> desc]
        IN Invoke(a, ToolGetProjectRuns(a, resp))

GetRunResults ==
    /\ Dispatch
    /\ \E run_id \in RunIds, resp \in Responses :
        LET a == [tool |-> "get_run_results", run_id |-> run_id]
        IN Invoke(a, ToolGetRunResults(a, resp))

RedactPii ==
    /\ Dispatch
    /\ \E files \in FileLists, resp \in Responses :
        LET a == [tool |-> "redact_pii", files |-> files]
        IN Invoke(a, ToolRedactPii(a, resp))

RedactRelevance ==
    /\ Dispatch
    /\ \E files \in FileLists, term \in Paths, cutoff \in Cutoffs, resp \in Responses :
        LET a == [tool |-> "redact_relevance", files |-> files,
                  relevance_term_file |-> term, cutoff |-> cutoff]
        IN Invoke(a, ToolRedactRelevance(a, resp))

ExtractRelationships ==
    /\ Dispatch
    /\ \E files \in FileLists, concepts \in Paths, resp \in Responses :
        LET a == [tool |-> "extract_relationships", files |-> files,
                  claim_concepts_file |-> concepts]
        IN Invoke(a, ToolExtractRelationships(a, resp))

CreateKnowledgeGraph ==
    /\ Dispatch
    /\ \E files \in FileLists, files2 \in FileLists2, concepts \in Paths \cup {None},
       resp \in Responses :
        LET a == [tool |-> "create_knowledge_graph", files |-> files,
                  files2 |-> files2, concepts_file |-> concepts,
                  files1_name |-> "set_1", files2_name |-> "set_2"]
        IN Invoke(a, ToolCreateKnowledgeGraph(a, resp))

GetRexMessage ==
    /\ Dispatch
    /\ \E run_id \in RunIds, resp \in Responses :
        LET a == [tool |-> "get_rex_message", run_id |-> run_id]
        IN Invoke(a, ToolGetRexMessage(a, resp))

SendRexMessage ==
    /\ Dispatch
    /\ \E run_id \in RunIds, graph \in Graphs, resp \in Responses :
        LET a == [tool |-> "send_rex_message", message |-> "hello", run_id |-> run_id,
                  graph |-> graph]
        IN Invoke(a, ToolSendRexMessage(a, resp))

\* The host takes the handler's return value; nothing of the invocation is
\* kept (no caching, no retained file content).
Respond ==
    /\ call # Idle
    /\ call' = Idle
    /\ delegated' = None
    /\ events' = <<>>
    /\ requests' = <<>>
    /\ response' = None
    /\ clientResult' = NoResult
    /\ outcome' = NoOutcome
    /\ UNCHANGED invoked
    /\ UNCHANGED envVars
    /\ UNCHANGED lifeVars

Next ==
    \/ Startup
    \/ Shutdown
    \/ ServeError
    \/ GetProjectRuns
    \/ GetRunResults
    \/ RedactPii
    \/ RedactRelevance
    \/ ExtractRelationships
    \/ CreateKnowledgeGraph
    \/ GetRexMessage
    \/ SendRexMessage
    \/ Respond

Spec == Init /\ [][Next]_vars

(***************************************************************************)
(* Properties.                                                             *)
(***************************************************************************)
StartsWith(s, prefix) ==
    Len(s) >= Len(prefix) /\ SubSeq(s, 1, Len(prefix)) = prefix

UploadTools == {"redact_pii", "redact_relevance", "extract_relationships",
                "create_knowledge_graph"}

\* The file paths an upload invocation names, over all its file arguments.
FileArgs(c) ==
    Range(c.files)
    \cup (IF c.tool = "redact_relevance" THEN {c.relevance_term_file} ELSE {})
    \cup (IF c.tool = "extract_relationships" THEN {c.claim_concepts_file} ELSE {})
    \cup (IF c.tool = "create_knowledge_graph"
          THEN Range(c.files2.list) \cup ({c.concepts_file} \ {None}) ELSE {})

Nonexistent(p) == p # "" /\ p \notin present

\* Every path of the call is a non-empty path that, if it exists, can be read.
PlainPaths(c) == \A p \in FileArgs(c) : p # "" /\ (p \in present => p \in readable)

IsFileNotFoundError(r) ==
    r.raised /\ r.kind = "FileNotFoundError" /\ StartsWith(r.msg, <<"File not found: ">>)

IsRequestFailedError(r) ==
    r.raised /\ r.kind = "Exception" /\ StartsWith(r.msg, <<"API request failed: ">>)

Attempts(e) == e.ev \in {"read", "openfail"}

\* C1: every tool invocation, whatever the client call did, returns a string
\* and raises nothing; when the client call failed the string starts with
\* "Error: ".
C1_ToolReturnsString ==
    call # Idle =>
        /\ ~outcome.raised
        /\ outcome.ret # <<>>
        /\ (clientResult.raised => StartsWith(outcome.ret, <<"Error: ">>))

\* A tool whose client call met a 2xx answer with an undecodable body: the
\* error is not one the client wraps, and the tool still returns "Error: ...".
C1_Witness ==
    /\ call.tool = "create_knowledge_graph"
    /\ response = "200 not json"
    /\ clientResult.raised
    /\ ~outcome.raised
    /\ StartsWith(outcome.ret, <<"Error: ">>)

\* C2 (as claimed): an upload tool that reaches the client with a nonexistent
\* path in any of its file arguments returns "Error: File not found: <path>"
\* naming a nonexistent path of the call, and sends no HTTP request.  Stated
\* over the calls whose other paths are plain, where nothing but a missing
\* file can go wrong before the request.
C2_MissingFileRejected ==
    (call.tool \in UploadTools /\ delegated # None /\ PlainPaths(call)) =>
        \A p \in FileArgs(call) :
            Nonexistent(p) =>
                /\ requests = <<>>
                /\ \E q \in FileArgs(call) :
                      /\ Nonexistent(q)
                      /\ outcome.ret = <<"Error: ", "File not found: ", q>>

\* C3 (as claimed): in an upload invocation every existence check precedes
\* every file read, every file read precedes the HTTP request, and an
\* invocation that ends in "file not found" has read no file.  Stated over
\* the calls whose paths are plain.
C3_ValidateThenReadThenSend ==
    (call.tool \in UploadTools /\ PlainPaths(call)) =>
        /\ \A i, j \in DOMAIN events :
              (events[i].ev = "exists" /\ Attempts(events[j])) => i < j
        /\ \A i, j \in DOMAIN events :
              (Attempts(events[i]) /\ events[j].ev = "http") => i < j
        /\ IsFileNotFoundError(clientResult) =>
              \A i \in DOMAIN events : ~Attempts(events[i])

\* C4 (as claimed): a client method returns the decoded body or raises "file
\* not found" or "API request failed", and no other kind of error.
C4_TwoErrorKinds ==
    delegated # None =>
        \/ ~clientResult.raised
        \/ IsFileNotFoundError(clientResult)
        \/ IsRequestFailedError(clientResult)

\* C5: a non-2xx status, a transport error or a timeout in answer to the
\* request of any tool makes the tool return a string that starts with
\* "Error: API request failed: ", and nothing is raised.
C5_RequestFailureWrapped ==
    (call # Idle /\ response \in {"404", "500", "connect error", "timeout"}) =>
        /\ ~outcome.raised
        /\ StartsWith(outcome.ret, <<"Error: ", "API request failed: ">>)

\* send_rex_message answered with HTTP 500.
C5_Witness ==
    /\ call.tool = "send_rex_message"
    /\ response = "500"
    /\ Len(requests) = 1
    /\ outcome.ret = <<"Error: ", "API request failed: ",
                       "Server error '500 Internal Server Error'">>

\* C6: the HTTP client is created at most once; once the lifespan has ended
\* after creating it (normally or by an error while serving) it has been
\* closed exactly once; after a startup failure there is no client; and a
\* tool invocation starts only while the client is open.
C6_ClientLifetime ==
    /\ [](/\ created <= 1
          /\ closed <= created
          /\ (life \in {"exited", "crashed"} =>
                created = 1 /\ closed = 1 /\ client.state = "closed")
          /\ (life = "failed" => created = 0 /\ closed = 0 /\ client.state = "none")
          /\ (life = "serving" => created = 1 /\ closed = 0 /\ client.state = "open")
          /\ (invoked => created = 1))
    /\ [][(call = Idle /\ call' # Idle) =>
            (client.state = "open" /\ client'.state = "open")]_vars

\* The lifespan ended by an error raised while serving, after a tool had run.
C6_Witness ==
    /\ life = "crashed"
    /\ invoked
    /\ created = 1
    /\ closed = 1

\* C7: with LATENTSENSE_API_KEY or LATENTSENSE_PROJECT_ID unset or empty the
\* lifespan never yields: no client is constructed, no lifespan context
\* exists, no tool is ever invoked; and the startup failure is only ever
\* reached with no tool invoked and nothing constructed.
C7_MissingConfigIsFatal ==
    /\ (envApiKey \in {None, ""} \/ envProjectId \in {None, ""}) =>
          /\ life \in {"init", "failed"}
          /\ created = 0
          /\ client = NoClient
          /\ lifespan_context = None
          /\ ~invoked
          /\ call = Idle
    /\ life = "failed" =>
          /\ envApiKey \in {None, ""} \/ envProjectId \in {None, ""}
          /\ ~invoked
          /\ created = 0

\* Startup failed on an empty project id although the API key was set.
C7_Witness ==
    /\ life = "failed"
    /\ envApiKey = "key"
    /\ envProjectId = ""

IsCogName(x) == x \in Range(valid_cog_names)
IsSortBy(x) == x \in Range(valid_sort_by)

ListsCogNames(ret) ==
    ret = <<"Error: ", "filter_cog_name must be one of ", "deidentification",
            "relationships", "ai_authorship_detection", "knowledge_graph">>

ListsSortBy(ret) == ret = <<"Error: ", "sort_by must be one of ", "time", "cost">>

\* C8 (as claimed): get_project_runs sends a request only if the filter is
\* absent (None) or a valid cog name and sort_by is valid; with any other
\* filter or sort_by it returns an error listing the valid set, with no request.
C8_Original ==
    call.tool = "get_project_runs" =>
        /\ requests # <<>> =>
              /\ call.filter_cog_name = None \/ IsCogName(call.filter_cog_name)
              /\ IsSortBy(call.sort_by)
        /\ ((call.filter_cog_name # None /\ ~IsCogName(call.filter_cog_name))
              \/ ~IsSortBy(call.sort_by)) =>
              (ListsCogNames(outcome.ret) \/ ListsSortBy(outcome.ret)) /\ requests = <<>>

\* C8 (amended): get_project_runs sends a request only if the filter is
\* None, empty or a valid cog name and sort_by is time or cost; with any
\* other filter it returns the error listing the four cog names, with any
\* other sort_by an error listing a valid set, and in both cases no request.
C8_RunsValidation ==
    call.tool = "get_project_runs" =>
        /\ requests # <<>> =>
              /\ call.filter_cog_name \in {None, ""} \/ IsCogName(call.filter_cog_name)
              /\ IsSortBy(call.sort_by)
        /\ (call.filter_cog_name \notin {None, ""} /\ ~IsCogName(call.filter_cog_name)) =>
              ListsCogNames(outcome.ret) /\ requests = <<>> /\ delegated = None
        /\ ~IsSortBy(call.sort_by) =>
              /\ ListsCogNames(outcome.ret) \/ ListsSortBy(outcome.ret)
              /\ requests = <<>>
              /\ delegated = None
        /\ ((call.filter_cog_name \in {None, ""} \/ IsCogName(call.filter_cog_name))
              /\ IsSortBy(call.sort_by)) => Len(requests) = 1

\* An invalid sort_by with a valid filter is rejected with the sort_by list.
C8_Witness ==
    /\ call.tool = "get_project_runs"
    /\ call.filter_cog_name = "relationships"
    /\ call.sort_by = "invalid"
    /\ ListsSortBy(outcome.ret)
    /\ requests = <<>>

\* C9: redact_relevance reads a file or sends a request only if cutoff is in
\* [0, 1]; for any other cutoff it returns the cutoff error with no file
\* access and no request; cutoffs 0 and 1 are accepted and go to the client.
C9_CutoffRange ==
    call.tool = "redact_relevance" =>
        LET c == call.cutoff
            inside == ~c.nan /\ 0 <= c.tenths /\ c.tenths <= 10
        IN /\ (events # <<>> \/ requests # <<>>) => inside
           /\ ~inside =>
                 /\ outcome.ret = <<"Error: ", "cutoff must be a number between 0 and 1">>
                 /\ events = <<>>
                 /\ requests = <<>>
                 /\ delegated = None
           /\ (~c.nan /\ c.tenths \in {0, 10}) => delegated = "redact_relevance"

\* The boundary cutoff 1 went through to the vendor with its files read.
C9_Witness ==
    /\ call.tool = "redact_relevance"
    /\ call.cutoff = Tenths(10)
    /\ delegated = "redact_relevance"
    /\ \E i \in DOMAIN events : events[i].ev = "read"
    /\ Len(requests) = 1

\* C10 (as claimed): send_rex_message sends one POST with the query
\* parameters message and run_id, and the request carries a JSON body, equal
\* to the graph, exactly when a graph is supplied (an empty one included).
C10_GraphIsBody ==
    call.tool = "send_rex_message" =>
        /\ Len(requests) = 1
        /\ requests[1].method = "POST"
        /\ requests[1].params = <<<<"message", call.message>>, <<"run_id", call.run_id>>>>
        /\ requests[1].json.given <=> call.graph.given
        /\ call.graph.given => requests[1].json.dict = call.graph.dict
====
